---- MODULE Spec2Model ----
(***************************************************************************)
(* A model of aiolxd: the response classifier                              *)
(* (AbstractTransport._process_response), the transport                    *)
(* (AsyncTransport.request / close), the lazy entities                     *)
(* (LazyEntity / InstanceEntity), the instance listing (LXD.instances) and *)
(* the path builders (RawLXDCaller / TransportProxyCaller).                *)
(***************************************************************************)
EXTENDS Integers, Sequences, FiniteSets, TLC

VARIABLES
    envelope,     \* classifier: the decoded JSON object handed to _process_response
    classified,   \* classifier: what _process_response returned or raised
    transport,    \* AsyncTransport: _session and _session_owner
    supplied,     \* the session argument AsyncTransport was constructed with
    closed,       \* the sessions that have been closed
    close_called, \* whether close() has been called on the transport
    netCalls,     \* number of session.request calls issued
    reqs,         \* per task: the call in progress and where it is suspended
    ent,          \* the lazy entity: _operation and _data (_object)
    accessed,     \* the last attribute access on the entity and its outcome
    heap,         \* path builder: the path objects constructed so far
    calls         \* path builder: the constructions and appends made so far

vars ==
    <<envelope, classified, transport, supplied, closed, close_called, netCalls,
      reqs, ent, accessed, heap, calls>>
classifierVars == <<envelope, classified>>
sessionVars == <<transport, supplied, closed, close_called>>
entityVars == <<ent, accessed>>
pathVars == <<heap, calls>>

(***************************************************************************)
(* Python / JSON values.  Every value is a tagged record so that values of *)
(* different Python types can sit in one set.                              *)
(***************************************************************************)
PyNone == [kind |-> "none"]
JStr(s) == [kind |-> "str", s |-> s]
JInt(n) == [kind |-> "int", n |-> n]
JArr(q) == [kind |-> "array", items |-> q]
JObj(f) == [kind |-> "object", fields |-> f]

\* A raised exception, and the absence of one.
Raised(exc, detail) == [exc |-> exc, detail |-> detail]
NoError == Raised("", "")

(***************************************************************************)
(* entities/response.py: the StatusCode enumeration.                       *)
(***************************************************************************)
\* Mutant: CANCELED mistyped as 400, which makes it an alias of FAILURE.
StatusCodeMembers_canceled_400 ==
    { [name |-> "OPERTAINON_CREATED", value |-> 100],
      [name |-> "STARTED", value |-> 101],
      [name |-> "STOPPED", value |-> 102],
      [name |-> "RUNNING", value |-> 103],
      [name |-> "CANCELING", value |-> 104],
      [name |-> "PENDING", value |-> 105],
      [name |-> "STARTING", value |-> 106],
      [name |-> "STOPPING", value |-> 107],
      [name |-> "ABORTING", value |-> 108],
      [name |-> "FREEZING", value |-> 109],
      [name |-> "FROZEN", value |-> 110],
      [name |-> "THAWED", value |-> 111],
      [name |-> "ERROR", value |-> 112],
      [name |-> "READY", value |-> 113],
      [name |-> "SUCCESS", value |-> 200],
      [name |-> "FAILURE", value |-> 400],
      [name |-> "NOT_FOUND", value |-> 404] }

StatusCodeMembers ==
    { [name |-> "OPERTAINON_CREATED", value |-> 100],
      [name |-> "STARTED", value |-> 101],
      [name |-> "STOPPED", value |-> 102],
      [name |-> "RUNNING", value |-> 103],
      [name |-> "CANCELING", value |-> 104],
      [name |-> "PENDING", value |-> 105],
      [name |-> "STARTING", value |-> 106],
      [name |-> "STOPPING", value |-> 107],
      [name |-> "ABORTING", value |-> 108],
      [name |-> "FREEZING", value |-> 109],
      [name |-> "FROZEN", value |-> 110],
      [name |-> "THAWED", value |-> 111],
      [name |-> "ERROR", value |-> 112],
      [name |-> "READY", value |-> 113],
      [name |-> "SUCCESS", value |-> 200],
      [name |-> "FAILURE", value |-> 400],
      [name |-> "CANCELED", value |-> 401],
      [name |-> "NOT_FOUND", value |-> 404] }

\* StatusCode(v): Enum lookup by value; Enum raises ValueError when no member
\* has the value.
StatusCodeKnown(v) == \E m \in StatusCodeMembers : m.value = v

StatusCode(v) == CHOOSE m \in StatusCodeMembers : m.value = v

(***************************************************************************)
(* transport.py: AbstractTransport._process_response.                      *)
(* A subscript response[k] of a missing key raises KeyError(k).            *)
(***************************************************************************)
NoVariant == [cls |-> "none"]
Returned(v) == [ok |-> TRUE, variant |-> v, err |-> NoError]
Failed(e) == [ok |-> FALSE, variant |-> NoVariant, err |-> e]
Has(response, k) == k \in DOMAIN response
NotRun == [ok |-> FALSE, variant |-> NoVariant, err |-> Raised("", "not run")]

SyncResponse(response) ==
    [cls |-> "SyncResponse", type_ |-> response["type"],
     metadata |-> response["metadata"], status |-> response["status"],
     status_code |-> StatusCode(response["status_code"])]

AsyncResponse(response) ==
    [cls |-> "AsyncResponse", type_ |-> response["type"],
     metadata |-> response["metadata"], status |-> response["status"],
     status_code |-> StatusCode(response["status_code"]),
     operation |-> response["operation"]]

ErrorResponse(response) ==
    [cls |-> "ErrorResponse", type_ |-> response["type"],
     metadata |-> response["metadata"], error |-> response["error"],
     error_code |-> StatusCode(response["error_code"])]

process_sync_async(response) ==
    IF ~Has(response, "status") THEN Failed(Raised("KeyError", "status"))
    ELSE IF ~Has(response, "status_code") THEN Failed(Raised("KeyError", "status_code"))
    ELSE IF ~StatusCodeKnown(response["status_code"])
        THEN Failed(Raised("ValueError", "not a valid StatusCode"))
    ELSE IF response["type"] = "async"
        THEN IF ~Has(response, "operation") THEN Failed(Raised("KeyError", "operation"))
             ELSE Returned(AsyncResponse(response))
    ELSE Returned(SyncResponse(response))

process_error(response) ==
    IF ~Has(response, "error") THEN Failed(Raised("KeyError", "error"))
    ELSE IF ~Has(response, "error_code") THEN Failed(Raised("KeyError", "error_code"))
    ELSE IF ~StatusCodeKnown(response["error_code"])
        THEN Failed(Raised("ValueError", "not a valid StatusCode"))
    ELSE Returned(ErrorResponse(response))

\* Lines 126-144: the dispatch on response["type"], once args is built.
process_typed(response) ==
    IF response["type"] = "sync" \/ response["type"] = "async"
        THEN process_sync_async(response)
    ELSE IF response["type"] = "error" THEN process_error(response)
    ELSE Failed(Raised("ValueError", "Invalid response type"))

\* Mutant: metadata read with response.get("metadata").
WithMetadataDefault(response) ==
    [k \in DOMAIN response \cup {"metadata"} |->
        IF k \in DOMAIN response THEN response[k] ELSE PyNone]

process_response_get_metadata(response) ==
    IF ~Has(response, "type") THEN Failed(Raised("ValueError", "Response has no type"))
    ELSE process_typed(WithMetadataDefault(response))

\* Mutant: the type dispatched on before args is built.
process_response_dispatch_first(response) ==
    IF ~Has(response, "type") THEN Failed(Raised("ValueError", "Response has no type"))
    ELSE IF response["type"] \notin {"sync", "async", "error"}
        THEN Failed(Raised("ValueError", "Invalid response type"))
    ELSE IF ~Has(response, "metadata") THEN Failed(Raised("KeyError", "metadata"))
    ELSE process_typed(response)

process_response(response) ==
    IF ~Has(response, "type") THEN Failed(Raised("ValueError", "Response has no type"))
    ELSE IF ~Has(response, "metadata") THEN Failed(Raised("KeyError", "metadata"))
    ELSE process_typed(response)

(***************************************************************************)
(* entities/instance.py: InstanceSchema (pydantic v1) and the entity.      *)
(* A str field keeps a str, turns an int into its decimal string, and      *)
(* rejects None; a missing required field is rejected; keys that are not   *)
(* fields are ignored.                                                     *)
(***************************************************************************)
str_validator_ok(v) == v.kind \in {"str", "int"}
str_validator(v) == IF v.kind = "str" THEN v.s ELSE ToString(v.n)

InstanceSchema_ok(object) ==
    /\ "architecture" \in DOMAIN object.fields
    /\ str_validator_ok(object.fields["architecture"])

InstanceSchema(object) ==
    [kind |-> "InstanceSchema",
     architecture |-> str_validator(object.fields["architecture"])]

Entity(operation, data) == [operation |-> operation, data |-> data]

\* Mutant: the previous data dropped before the new object is validated.
fill_clears_first(e, object) ==
    IF object.kind # "object"
        THEN [ent |-> [e EXCEPT !.data = PyNone],
              err |-> Raised("TypeError", "argument after ** must be a mapping")]
    ELSE IF ~InstanceSchema_ok(object)
        THEN [ent |-> [e EXCEPT !.data = PyNone],
              err |-> Raised("AioLXDValidationError", "architecture")]
    ELSE [ent |-> [e EXCEPT !.data = InstanceSchema(object)], err |-> NoError]

\* Mutant: storing the data drops the operation reference.
fill_drops_operation(e, object) ==
    IF object.kind # "object"
        THEN [ent |-> e, err |-> Raised("TypeError", "argument after ** must be a mapping")]
    ELSE IF ~InstanceSchema_ok(object)
        THEN [ent |-> e, err |-> Raised("AioLXDValidationError", "architecture")]
    ELSE [ent |-> Entity(PyNone, InstanceSchema(object)), err |-> NoError]

\* fill: self._object = InstanceSchema(**object); the assignment happens only
\* when the constructor returns.
fill(e, object) ==
    IF object.kind # "object"
        THEN [ent |-> e, err |-> Raised("TypeError", "argument after ** must be a mapping")]
    ELSE IF ~InstanceSchema_ok(object)
        THEN [ent |-> e, err |-> Raised("AioLXDValidationError", "architecture")]
    ELSE [ent |-> [e EXCEPT !.data = InstanceSchema(object)], err |-> NoError]

\* __init__(transport, operation, object)
InstanceEntity_init(operation, object) ==
    IF object = PyNone THEN [ent |-> Entity(operation, PyNone), err |-> NoError]
    ELSE fill(Entity(operation, PyNone), object)

is_fetched(e) == e.data # PyNone

\* Python truth value of a value: `not self._operation`.
Falsy(v) ==
    \/ v.kind = "none"
    \/ v.kind = "str" /\ v.s = ""
    \/ v.kind = "int" /\ v.n = 0
    \/ v.kind = "array" /\ v.items = <<>>
    \/ v.kind = "object" /\ DOMAIN v.fields = {}

\* What a call hands back: a value, or a raised exception.
Ret(value) == [ok |-> TRUE, value |-> value, err |-> NoError]
Raise(e) == [ok |-> FALSE, value |-> PyNone, err |-> e]
NoRet == [ok |-> FALSE, value |-> PyNone, err |-> Raised("", "not run")]

\* Mutant: update() raises the daemon's error when the transport returned an
\* ErrorResponse.
update_after_get_raises_error(e, resp) ==
    IF resp.cls = "ErrorResponse"
        THEN [ent |-> e, err |-> Raised("AioLXDResponseError", "daemon error")]
    ELSE IF resp.metadata.kind # "object"
        THEN [ent |-> e, err |-> Raised("RuntimeError", "Invalid response")]
    ELSE fill(e, resp.metadata)

\* update(), after `resp = await self._transport.get(self._operation)`.
update_after_get(e, resp) ==
    IF resp.metadata.kind # "object"
        THEN [ent |-> e, err |-> Raised("RuntimeError", "Invalid response")]
    ELSE fill(e, resp.metadata)

(***************************************************************************)
(* LazyEntity[S] with the two-field schema of lazy_entity's own example:   *)
(* MyEntity(foo: str, bar: int).  The bar values given here are ints, null *)
(* or absent.                                                              *)
(***************************************************************************)
int_validator_ok(v) == v.kind = "int"

MyEntity_ok(object) ==
    /\ "foo" \in DOMAIN object.fields
    /\ str_validator_ok(object.fields["foo"])
    /\ "bar" \in DOMAIN object.fields
    /\ int_validator_ok(object.fields["bar"])

MyEntity(object) ==
    [kind |-> "MyEntity",
     foo |-> str_validator(object.fields["foo"]),
     bar |-> object.fields["bar"].n]

\* Mutant: on an entity that holds data, fill replaces foo and keeps bar.
LazyEntity_fill_merging(e, object) ==
    IF object.kind # "object"
        THEN [ent |-> e, err |-> Raised("TypeError", "argument after ** must be a mapping")]
    ELSE IF ~MyEntity_ok(object)
        THEN [ent |-> e, err |-> Raised("AioLXDValidationError", "MyEntity")]
    ELSE IF e.data = PyNone
        THEN [ent |-> [e EXCEPT !.data = MyEntity(object)], err |-> NoError]
    ELSE [ent |-> [e EXCEPT !.data = [MyEntity(object) EXCEPT !.bar = e.data.bar]],
          err |-> NoError]

\* fill: self._data = self.schema(**object), one assignment of the whole model.
LazyEntity_fill(e, object) ==
    IF object.kind # "object"
        THEN [ent |-> e, err |-> Raised("TypeError", "argument after ** must be a mapping")]
    ELSE IF ~MyEntity_ok(object)
        THEN [ent |-> e, err |-> Raised("AioLXDValidationError", "MyEntity")]
    ELSE [ent |-> [e EXCEPT !.data = MyEntity(object)], err |-> NoError]

\* update(), after `resp = await self._transport.get(self._operation)`.
LazyEntity_update_after_get(e, resp) ==
    IF resp.metadata.kind # "object"
        THEN [ent |-> e, err |-> Raised("RuntimeError", "Invalid response")]
    ELSE LazyEntity_fill(e, resp.metadata)

\* __getattr__(name): getattr(self._object, name) on a fetched entity.
getattr_fetched(data, name) ==
    IF name = "architecture" THEN Ret(JStr(data.architecture))
    ELSE Raise(Raised("AttributeError", name))

\* Mutant: an unfetched entity answers None.
getattr_default_none(e, name) ==
    IF e.data = PyNone THEN Ret(PyNone) ELSE getattr_fetched(e.data, name)

getattr(e, name) ==
    IF e.data = PyNone THEN Raise(Raised("RuntimeError", "Object not fetched"))
    ELSE getattr_fetched(e.data, name)

(***************************************************************************)
(* lxd.py: LXD.instances, after `resp = await self.transport.instances`.   *)
(***************************************************************************)
RECURSIVE first_fill_error(_, _)
\* The exception of the first item, from index i on, that fill rejects.
first_fill_error(items, i) ==
    IF i > Len(items) THEN NoError
    ELSE IF fill(Entity(PyNone, PyNone), items[i]).err # NoError
        THEN fill(Entity(PyNone, PyNone), items[i]).err
    ELSE first_fill_error(items, i + 1)

\* Mutant: every entity filled from the first item.
filled_list_first_item(items) ==
    [i \in 1..Len(items) |-> fill(Entity(PyNone, PyNone), items[1]).ent]

filled_list(items) ==
    [i \in 1..Len(items) |-> fill(Entity(PyNone, PyNone), items[i]).ent]

\* Mutant: the references wrapped in reverse order.
unfetched_list_reversed(items) ==
    [i \in 1..Len(items) |-> Entity(items[Len(items) + 1 - i], PyNone)]

unfetched_list(items) ==
    [i \in 1..Len(items) |-> Entity(items[i], PyNone)]

instances_after_request(resp, recursion) ==
    IF resp.metadata.kind # "array" THEN Raise(Raised("RuntimeError", "Invalid response"))
    ELSE IF recursion
        THEN IF first_fill_error(resp.metadata.items, 1) # NoError
             THEN Raise(first_fill_error(resp.metadata.items, 1))
             ELSE Ret(filled_list(resp.metadata.items))
    ELSE Ret(unfetched_list(resp.metadata.items))

(***************************************************************************)
(* transport.py: AsyncTransport.                                           *)
(***************************************************************************)
\* The session argument: "none" is None, "caller" a session of the caller's.
\* "own" is the ClientSession the transport creates.
SessionArgs == {"none", "caller"}

\* Mutant: ownership recorded the wrong way round.
AsyncTransport_init_owner_inverted(session) ==
    [session |-> IF session # "none" THEN session ELSE "own",
     session_owner |-> session # "none"]

\* __init__: self._session = session or ClientSession();
\* self._session_owner = session is None
AsyncTransport_init(session) ==
    [session |-> IF session # "none" THEN session ELSE "own",
     session_owner |-> session = "none"]

\* Mutant: close() closes the session whoever owns it.
close_always(t, closedSessions) == closedSessions \cup {t.session}

\* close(): if self._session_owner: await self._session.close()
close(t, closedSessions) ==
    IF t.session_owner THEN closedSessions \cup {t.session} ELSE closedSessions

\* An AioLXDResponseError: it carries the response (status, reason).
AioLXDResponseError(status, reason, detail) ==
    [exc |-> "AioLXDResponseError", detail |-> detail, status |-> status, reason |-> reason]

\* Mutant: only statuses above 500 taken for server errors.
is_server_error_above_500(status) == status > 500

\* request(): if response.status >= 500
is_server_error(status) == status >= 500

\* request(): params["recursion"] = "1" if recursion else "0"; recursion is
\* "none" (not given), "true" or "false".
query_params(recursion) ==
    CASE recursion = "none" -> ""
      [] recursion = "true" -> "recursion=1"
      [] recursion = "false" -> "recursion=0"

\* request(): obj = await response.json() with its except clauses, then
\* return self._process_response(obj).
read_json(status, reason, body) ==
    CASE body.kind = "content_type" ->
            Failed(AioLXDResponseError(status, reason, "Response is not JSON: content type"))
      [] body.kind = "client_error" ->
            Failed(AioLXDResponseError(status, reason, "Response error"))
      [] body.kind = "decode_error" ->
            Failed(AioLXDResponseError(status, reason, "Response is not JSON: Failed to decode JSON"))
      [] body.kind = "json" -> process_response(body.obj)

\* A task's call record.  pc is where the call is suspended: "sending" at
\* `await self._session.request(...)`, "reading" at `await response.json()`,
\* "idle" when no call is in progress (the record then holds the last call).
IdleReq ==
    [pc |-> "idle", caller |-> "", method |-> "", recursion |-> "none", query |-> "",
     status |-> 0, reason |-> "", sent |-> 0,
     json_read |-> FALSE, classifier_ran |-> FALSE,
     result |-> NotRun, ret |-> NoRet]

(***************************************************************************)
(* The envelopes the classifier is run on: every subset of the envelope's  *)
(* keys, with values drawn from small sets.                                *)
(***************************************************************************)
\* How far outside the enumerated status codes the sampled integers reach.
CodeSlack == 1

StatusCodeValues == {m.value : m \in StatusCodeMembers}
CodeSamples == {c + d : c \in StatusCodeValues, d \in (0 - CodeSlack)..CodeSlack}
ErrorCodeSamples == {112, 404, 500}

ObjA == JObj([architecture |-> JStr("x86_64")])
MetadataSamples == {PyNone, JArr(<<JStr("/1.0/instances/a")>>), ObjA}

EnvelopeKeys ==
    {"type", "status", "status_code", "operation", "error", "error_code", "metadata"}

FullEnvelopes ==
    [type : {"sync", "async", "error", "bogus"},
     status : {"Success"},
     status_code : CodeSamples,
     operation : {"/1.0/operations/1"},
     error : {"not found"},
     error_code : ErrorCodeSamples,
     metadata : MetadataSamples]

Restrict(f, S) == [k \in S |-> f[k]]

Envelopes == {Restrict(f, S) : f \in FullEnvelopes, S \in SUBSET EnvelopeKeys}

(***************************************************************************)
(* What the daemon and the network can answer.                             *)
(***************************************************************************)
\* Requests issued in one run, and the longest listing.
MaxRequests == 2
MaxList == 2

Tasks == {"t1", "t2"}
TransportTasks == {"t1"}

StatusLines ==
    { [status |-> 200, reason |-> "OK"],
      [status |-> 404, reason |-> "Not Found"],
      [status |-> 499, reason |-> "Client Closed Request"],
      [status |-> 500, reason |-> "Internal Server Error"],
      [status |-> 503, reason |-> "Service Unavailable"] }

SyncEnvelope(m) ==
    [type |-> "sync", status |-> "Success", status_code |-> 200, metadata |-> m]
AsyncEnvelope(m) ==
    [type |-> "async", status |-> "Operation created", status_code |-> 100,
     operation |-> "/1.0/operations/1", metadata |-> m]
ErrorEnvelope(m) ==
    [type |-> "error", error |-> "not found", error_code |-> 404, metadata |-> m]

ObjB == JObj([architecture |-> JStr("aarch64"), name |-> JStr("c1")])
ObjInt == JObj([architecture |-> JInt(64)])
ObjNoArch == JObj([name |-> JStr("c1")])
ObjNullArch == JObj([architecture |-> PyNone])

Refs == {JStr("/1.0/instances/a"), JStr("/1.0/instances/b")}
ListItems == Refs \cup {ObjA, ObjB, ObjInt, ObjNoArch, ObjNullArch}

SeqsUpTo(S, n) == UNION {[1..k -> S] : k \in 0..n}

Json(obj) == [kind |-> "json", obj |-> obj]
BrokenBodies ==
    {[kind |-> "content_type"], [kind |-> "client_error"], [kind |-> "decode_error"]}

\* Answers to a listing or a plain request.
TransportBodies ==
    BrokenBodies
    \cup {Json(SyncEnvelope(JArr(q))) : q \in SeqsUpTo(ListItems, MaxList)}
    \cup {Json(SyncEnvelope(PyNone)), Json(SyncEnvelope(ObjA)),
          Json(ErrorEnvelope(PyNone)), Json(ErrorEnvelope(JArr(<<JStr("/1.0/instances/a")>>))),
          Json([status |-> "Success", status_code |-> 200, metadata |-> PyNone]),
          Json([type |-> "sync", status |-> "Success", status_code |-> 200]),
          Json([type |-> "sync", status |-> "Success", status_code |-> 600, metadata |-> PyNone])}

\* Answers to the GET of an entity's operation.
EntityStatusLines ==
    { [status |-> 200, reason |-> "OK"],
      [status |-> 503, reason |-> "Service Unavailable"] }

EntityBodies ==
    {[kind |-> "content_type"], [kind |-> "decode_error"]}
    \cup {Json(SyncEnvelope(m)) :
            m \in {ObjA, ObjB, ObjNoArch, PyNone, JArr(<<JStr("/1.0/instances/a")>>)}}
    \cup {Json(ErrorEnvelope(ObjB)), Json(AsyncEnvelope(ObjA)),
          Json([status |-> "Success", status_code |-> 200, metadata |-> ObjA])}

\* Answers to the GET of a MyEntity's operation.
MyA == JObj([foo |-> JStr("a"), bar |-> JInt(1)])
MyB == JObj([foo |-> JStr("b"), bar |-> JInt(2)])
MyNoBar == JObj([foo |-> JStr("b")])
MyNullBar == JObj([foo |-> JStr("a"), bar |-> PyNone])

LazyBodies ==
    {[kind |-> "decode_error"]}
    \cup {Json(SyncEnvelope(m)) : m \in {MyA, MyB, MyNoBar, MyNullBar, PyNone}}
    \cup {Json(ErrorEnvelope(MyB))}

BodiesFor(caller) ==
    IF caller \in {"fetch", "update"} THEN EntityBodies
    ELSE IF caller = "lazy_fetch" THEN LazyBodies
    ELSE TransportBodies

\* The objects fill() is called with, and the entities a caller constructs.
FillObjects == {ObjA, ObjB, ObjNoArch}
Operations == {PyNone, JStr(""), JStr("/1.0/instances/a")}
ConstructorArgs ==
    {a \in Operations \X ({PyNone} \cup FillObjects) :
        InstanceEntity_init(a[1], a[2]).err = NoError}
ConstructedEntities == {InstanceEntity_init(a[1], a[2]).ent : a \in ConstructorArgs}

FieldNames == {"architecture", "name"}

(***************************************************************************)
(* The calls.  A call runs from one suspension point to the next in one    *)
(* step; everything a call does after its last await is part of the step   *)
(* that resumes it.                                                        *)
(***************************************************************************)
\* fetch(): if self._data is None: await self.update()
\* Mutant: fetch() updates whether or not the entity is fetched.
fetch_always_updates(e) == TRUE

fetch_needs_update(e) == e.data = PyNone

\* What the caller of the transport does with the request's outcome.
continue_caller(r, outcome, e) ==
    CASE r.caller = "request" ->
            [ret |-> IF outcome.ok THEN Ret(outcome.variant) ELSE Raise(outcome.err),
             ent |-> e]
      [] r.caller = "instances" ->
            [ret |-> IF outcome.ok
                     THEN instances_after_request(outcome.variant, r.recursion = "true")
                     ELSE Raise(outcome.err),
             ent |-> e]
      [] r.caller \in {"fetch", "update"} ->
            IF outcome.ok
            THEN [ret |-> IF update_after_get(e, outcome.variant).err = NoError
                          THEN Ret(PyNone)
                          ELSE Raise(update_after_get(e, outcome.variant).err),
                  ent |-> update_after_get(e, outcome.variant).ent]
            ELSE [ret |-> Raise(outcome.err), ent |-> e]
      [] r.caller = "lazy_fetch" ->
            IF outcome.ok
            THEN [ret |-> IF LazyEntity_update_after_get(e, outcome.variant).err = NoError
                          THEN Ret(PyNone)
                          ELSE Raise(LazyEntity_update_after_get(e, outcome.variant).err),
                  ent |-> LazyEntity_update_after_get(e, outcome.variant).ent]
            ELSE [ret |-> Raise(outcome.err), ent |-> e]

\* The request returns or raises `outcome`, and the call runs to its end.
Finish(t, r, outcome) ==
    /\ reqs' = [reqs EXCEPT ![t] =
                  [r EXCEPT !.pc = "idle", !.result = outcome,
                            !.ret = continue_caller(r, outcome, ent).ret]]
    /\ ent' = continue_caller(r, outcome, ent).ent

\* The call ends before it reaches the transport.
ReturnAtOnce(t, caller, ret) ==
    /\ reqs' = [reqs EXCEPT ![t] = [IdleReq EXCEPT !.caller = caller, !.ret = ret]]
    /\ UNCHANGED <<ent, netCalls>>

\* request() up to `await self._session.request(...)`.  aiohttp refuses a
\* request on a closed session.
Begin(t, caller, method, recursion) ==
    /\ netCalls < MaxRequests
    /\ LET r == [IdleReq EXCEPT !.caller = caller, !.method = method,
                                !.recursion = recursion,
                                !.query = query_params(recursion)]
       IN IF transport.session \in closed
          THEN /\ Finish(t, r, Failed(Raised("RuntimeError", "Session is closed")))
               /\ UNCHANGED netCalls
          ELSE /\ reqs' = [reqs EXCEPT ![t] = [r EXCEPT !.pc = "sending", !.sent = 1]]
               /\ netCalls' = netCalls + 1
               /\ UNCHANGED ent

\* transport.request(method, path, recursion=...), called directly.
Request(t, method, recursion) ==
    /\ reqs[t].pc = "idle"
    /\ Begin(t, "request", method, recursion)
    /\ UNCHANGED <<pathVars, classifierVars, sessionVars, accessed>>

\* LXD.instances(recursion).
Instances(t, recursion) ==
    /\ reqs[t].pc = "idle"
    /\ Begin(t, "instances", "GET", recursion)
    /\ UNCHANGED <<pathVars, classifierVars, sessionVars, accessed>>

\* The response's status line arrives: `response = await ...` resumes.
ResponseArrives(t, line) ==
    /\ reqs[t].pc = "sending"
    /\ LET r == [reqs[t] EXCEPT !.status = line.status, !.reason = line.reason]
       IN IF is_server_error(line.status)
          THEN Finish(t, r, Failed(AioLXDResponseError(line.status, line.reason, "Server error")))
          ELSE /\ reqs' = [reqs EXCEPT ![t] = [r EXCEPT !.pc = "reading", !.json_read = TRUE]]
               /\ UNCHANGED ent
    /\ UNCHANGED <<pathVars, classifierVars, sessionVars, netCalls, accessed>>

\* session.request raises (the connection fails).
SendFails(t) ==
    /\ reqs[t].pc = "sending"
    /\ Finish(t, reqs[t], Failed(Raised("ClientError", "")))
    /\ UNCHANGED <<pathVars, classifierVars, sessionVars, netCalls, accessed>>

\* `obj = await response.json()` resumes, and the classifier runs.
BodyArrives(t, body) ==
    /\ reqs[t].pc = "reading"
    /\ body \in BodiesFor(reqs[t].caller)
    /\ Finish(t, [reqs[t] EXCEPT !.classifier_ran = (body.kind = "json")],
              read_json(reqs[t].status, reqs[t].reason, body))
    /\ UNCHANGED <<pathVars, classifierVars, sessionVars, netCalls, accessed>>

\* The task is cancelled while suspended.
Cancel(t) ==
    /\ reqs[t].pc \in {"sending", "reading"}
    /\ Finish(t, reqs[t], Failed(Raised("CancelledError", "")))
    /\ UNCHANGED <<pathVars, classifierVars, sessionVars, netCalls, accessed>>

\* AsyncTransport.close().
Close ==
    /\ closed' = close(transport, closed)
    /\ close_called' = TRUE
    /\ UNCHANGED <<pathVars, classifierVars, transport, supplied, netCalls, reqs, entityVars>>

\* __aexit__ of the transport or of LXD: await self.close().
AExit ==
    /\ closed' = close(transport, closed)
    /\ close_called' = TRUE
    /\ UNCHANGED <<pathVars, classifierVars, transport, supplied, netCalls, reqs, entityVars>>

\* entity.update().
Update(t) ==
    /\ reqs[t].pc = "idle"
    /\ IF Falsy(ent.operation)
       THEN ReturnAtOnce(t, "update", Raise(Raised("RuntimeError", "Operation not set")))
       ELSE Begin(t, "update", "GET", "none")
    /\ UNCHANGED <<pathVars, classifierVars, sessionVars, accessed>>

\* entity.fetch().
Fetch(t) ==
    /\ reqs[t].pc = "idle"
    /\ IF ~fetch_needs_update(ent) THEN ReturnAtOnce(t, "fetch", Ret(PyNone))
       ELSE IF Falsy(ent.operation)
       THEN ReturnAtOnce(t, "fetch", Raise(Raised("RuntimeError", "Operation not set")))
       ELSE Begin(t, "fetch", "GET", "none")
    /\ UNCHANGED <<pathVars, classifierVars, sessionVars, accessed>>

\* fetch() on a LazyEntity[MyEntity], by a task that has made no call yet.
LazyFetch(t) ==
    /\ reqs[t] = IdleReq
    /\ IF ent.data # PyNone THEN ReturnAtOnce(t, "lazy_fetch", Ret(PyNone))
       ELSE IF Falsy(ent.operation)
       THEN ReturnAtOnce(t, "lazy_fetch", Raise(Raised("RuntimeError", "Operation not set")))
       ELSE Begin(t, "lazy_fetch", "GET", "none")
    /\ UNCHANGED <<pathVars, classifierVars, sessionVars, accessed>>

\* entity.fill(object).
Fill(object) ==
    /\ ent' = fill(ent, object).ent
    /\ UNCHANGED <<pathVars, classifierVars, sessionVars, netCalls, reqs, accessed>>

\* entity.<name>, through __getattr__.
GetAttr(name) ==
    /\ accessed' = [name |-> name, ret |-> getattr(ent, name)]
    /\ UNCHANGED <<pathVars, classifierVars, sessionVars, netCalls, reqs, ent>>

(***************************************************************************)
(* The path builders: RawLXDCaller and TransportProxyCaller.  A str is the *)
(* sequence of its pieces, and + is concatenation; no piece used here is a *)
(* concatenation of other pieces, so two strs are equal exactly when their *)
(* sequences are.  A path object is a cell of `heap`, named by its index.  *)
(***************************************************************************)
Pieces(arg) == IF arg = PyNone THEN <<>> ELSE arg.s

\* path.startswith("http") and path.endswith("/1.0")
startswith_http(path) == Len(path) >= 1 /\ path[1] = "http"
endswith_1_0(path) ==
    Len(path) >= 2 /\ path[Len(path) - 1] = "/" /\ path[Len(path)] = "1.0"

\* name.startswith("__") and name.endswith("__")
is_dunder(name) == Len(name) >= 1 /\ name[1] = "__" /\ name[Len(name)] = "__"

NoPath == [cls |-> "", path |-> <<>>]

\* RawLXDCaller(session, path, initial)
RawLXDCaller_init(path, initial) ==
    IF initial /\ ~startswith_http(path)
    THEN [obj |-> NoPath, err |-> Raised("ValueError", "Path must start with http")]
    ELSE [obj |-> [cls |-> "RawLXDCaller",
                   path |-> IF initial /\ ~endswith_1_0(path)
                            THEN path \o <<"/", "1.0">>
                            ELSE path],
          err |-> NoError]

\* TransportProxyCaller(path, parent)
TransportProxyCaller_init(path) == [cls |-> "TransportProxyCaller", path |-> path]

\* What a call on the object heap[self] leaves: the heap, and the index of the
\* object it returns (0 when it raises).
Allocated(h, obj) == [heap |-> Append(h, obj), ret |-> Len(h) + 1, err |-> NoError]
NotAllocated(h, e) == [heap |-> h, ret |-> 0, err |-> e]

\* Mutant: _construct rewrites self._path and returns self.
RawLXDCaller_construct_in_place(h, self, path) ==
    [heap |-> [h EXCEPT ![self].path = path], ret |-> self, err |-> NoError]

\* self._construct(path): a new RawLXDCaller, initial=False
RawLXDCaller_construct(h, self, path) ==
    Allocated(h, RawLXDCaller_init(path, FALSE).obj)

\* self.slash(path=None)
RawLXDCaller_slash(h, self, path) ==
    IF path = PyNone
    THEN RawLXDCaller_construct(h, self, h[self].path \o <<"/">>)
    ELSE RawLXDCaller_construct(h, self, h[self].path \o <<"/">> \o path.s)

\* self.path(path)
RawLXDCaller_path(h, self, path) ==
    RawLXDCaller_construct(h, self, h[self].path \o <<"/">> \o path.s)

\* self.<name>, for a name that is no attribute of the class
RawLXDCaller_getattr(h, self, name) ==
    IF is_dunder(name.s)
    THEN NotAllocated(h, Raised("AttributeError", ""))
    ELSE RawLXDCaller_construct(h, self, h[self].path \o <<"/">> \o name.s)

\* self.slash(name): f"{self.path}/{name}"
TransportProxyCaller_slash(h, self, name) ==
    Allocated(h, TransportProxyCaller_init(h[self].path \o <<"/">> \o name.s))

\* self.<name>, for a name that is no attribute of the class
TransportProxyCaller_getattr(h, self, name) == TransportProxyCaller_slash(h, self, name)

\* transport.<name>: the first proxy, whose path is the name
AbstractTransport_getattr(h, name) == Allocated(h, TransportProxyCaller_init(name.s))

\* The inputs of the path builders.
MaxCalls == 3
BaseURLs ==
    { <<"http", "s://localhost:8443">>,
      <<"http", "s://localhost:8443", "/", "1.0">>,
      <<"http", "s://localhost:8443", "/">>,
      <<"localhost:8443">> }
Segments == {JStr(<<"containers">>), JStr(<<"foo">>)}
AttrNames == Segments \cup {JStr(<<"__", "len", "__">>), JStr(<<"__", "private">>)}

\* One call on a path object: what it was given, how its receiver rendered
\* when it was made, and what it returned.
PathCall(op, recv, arg, built) ==
    [op |-> op, recv |-> recv, arg |-> arg,
     before |-> IF recv = 0 THEN <<>> ELSE heap[recv].path,
     ret |-> built.ret, err |-> built.err]

Record(op, recv, arg, built) ==
    /\ Len(calls) < MaxCalls
    /\ heap' = built.heap
    /\ calls' = Append(calls, PathCall(op, recv, arg, built))
    /\ UNCHANGED <<classifierVars, sessionVars, netCalls, reqs, entityVars>>

\* RawLXDCaller(session, url)
NewRawLXDCaller(url) ==
    /\ heap = <<>>
    /\ Record("RawLXDCaller", 0, JStr(url),
              IF RawLXDCaller_init(url, TRUE).err = NoError
              THEN Allocated(heap, RawLXDCaller_init(url, TRUE).obj)
              ELSE NotAllocated(heap, RawLXDCaller_init(url, TRUE).err))

\* transport.<name>
NewTransportProxyCaller(name) ==
    /\ heap = <<>>
    /\ Record("AbstractTransport.__getattr__", 0, name, AbstractTransport_getattr(heap, name))

\* p.slash() and p.slash(segment) on a RawLXDCaller
RawSlash(self, arg) ==
    /\ heap[self].cls = "RawLXDCaller"
    /\ Record("slash", self, arg, RawLXDCaller_slash(heap, self, arg))

\* p.path(segment) on a RawLXDCaller
RawPath(self, arg) ==
    /\ heap[self].cls = "RawLXDCaller"
    /\ Record("path", self, arg, RawLXDCaller_path(heap, self, arg))

\* p.<name> on a RawLXDCaller
RawGetAttr(self, name) ==
    /\ heap[self].cls = "RawLXDCaller"
    /\ Record("__getattr__", self, name, RawLXDCaller_getattr(heap, self, name))

\* p.slash(name) on a TransportProxyCaller
ProxySlash(self, name) ==
    /\ heap[self].cls = "TransportProxyCaller"
    /\ Record("slash", self, name, TransportProxyCaller_slash(heap, self, name))

\* p.<name> on a TransportProxyCaller
ProxyGetAttr(self, name) ==
    /\ heap[self].cls = "TransportProxyCaller"
    /\ Record("__getattr__", self, name, TransportProxyCaller_getattr(heap, self, name))

(***************************************************************************)
(* The specifications.                                                     *)
(***************************************************************************)
NoAccess == [name |-> "", ret |-> NoRet]
NoEntity == Entity(PyNone, PyNone)

InitClassify ==
    /\ envelope \in Envelopes
    /\ classified = NotRun
    /\ supplied = "none"
    /\ transport = AsyncTransport_init("none")
    /\ closed = {}
    /\ close_called = FALSE
    /\ netCalls = 0
    /\ reqs = [t \in Tasks |-> IdleReq]
    /\ ent = NoEntity
    /\ accessed = NoAccess
    /\ heap = <<>>
    /\ calls = <<>>

\* _process_response(envelope)
Classify ==
    /\ classified = NotRun
    /\ classified' = process_response(envelope)
    /\ UNCHANGED <<pathVars, envelope, sessionVars, netCalls, reqs, entityVars>>

NextClassify == Classify

SpecClassify == InitClassify /\ [][NextClassify]_vars

\* The transport: requests, listings and close(), one call at a time.
InitTransport ==
    /\ envelope = SyncEnvelope(PyNone)
    /\ classified = NotRun
    /\ supplied \in SessionArgs
    /\ transport = AsyncTransport_init(supplied)
    /\ closed = {}
    /\ close_called = FALSE
    /\ netCalls = 0
    /\ reqs = [t \in Tasks |-> IdleReq]
    /\ ent = NoEntity
    /\ accessed = NoAccess
    /\ heap = <<>>
    /\ calls = <<>>

NextTransport ==
    \/ \E t \in TransportTasks :
          \/ \E m \in {"GET", "POST"}, rec \in {"none", "false", "true"} : Request(t, m, rec)
          \/ \E rec \in {"false", "true"} : Instances(t, rec)
          \/ \E line \in StatusLines : ResponseArrives(t, line)
          \/ SendFails(t)
          \/ \E body \in TransportBodies : BodyArrives(t, body)
          \/ Cancel(t)
    \/ Close
    \/ AExit

SpecTransport == InitTransport /\ [][NextTransport]_vars

\* One entity, as its constructor leaves it, and the calls on it.
Init ==
    /\ envelope = SyncEnvelope(PyNone)
    /\ classified = NotRun
    /\ supplied = "none"
    /\ transport = AsyncTransport_init("none")
    /\ closed = {}
    /\ close_called = FALSE
    /\ netCalls = 0
    /\ reqs = [t \in Tasks |-> IdleReq]
    /\ ent \in ConstructedEntities
    /\ accessed = NoAccess
    /\ heap = <<>>
    /\ calls = <<>>

Next ==
    \/ \E t \in Tasks :
          \/ Fetch(t)
          \/ Update(t)
          \/ \E line \in EntityStatusLines : ResponseArrives(t, line)
          \/ SendFails(t)
          \/ \E body \in EntityBodies : BodyArrives(t, body)
          \/ Cancel(t)
    \/ \E object \in FillObjects : Fill(object)
    \/ \E name \in FieldNames : GetAttr(name)

Spec == Init /\ [][Next]_vars

\* One unresolved LazyEntity[MyEntity], and two tasks that each call fetch() on
\* it once, in any interleaving of their suspension points.
InitConcurrentFetch ==
    /\ envelope = SyncEnvelope(PyNone)
    /\ classified = NotRun
    /\ supplied = "none"
    /\ transport = AsyncTransport_init("none")
    /\ closed = {}
    /\ close_called = FALSE
    /\ netCalls = 0
    /\ reqs = [t \in Tasks |-> IdleReq]
    /\ ent \in {Entity(op, PyNone) : op \in Operations}
    /\ accessed = NoAccess
    /\ heap = <<>>
    /\ calls = <<>>

NextConcurrentFetch ==
    \E t \in Tasks :
        \/ LazyFetch(t)
        \/ \E line \in EntityStatusLines : ResponseArrives(t, line)
        \/ SendFails(t)
        \/ \E body \in LazyBodies : BodyArrives(t, body)
        \/ Cancel(t)

SpecConcurrentFetch == InitConcurrentFetch /\ [][NextConcurrentFetch]_vars

\* The path builders: one first path, and the paths derived from it.
InitPath ==
    /\ envelope = SyncEnvelope(PyNone)
    /\ classified = NotRun
    /\ supplied = "none"
    /\ transport = AsyncTransport_init("none")
    /\ closed = {}
    /\ close_called = FALSE
    /\ netCalls = 0
    /\ reqs = [t \in Tasks |-> IdleReq]
    /\ ent = NoEntity
    /\ accessed = NoAccess
    /\ heap = <<>>
    /\ calls = <<>>

NextPath ==
    \/ \E url \in BaseURLs : NewRawLXDCaller(url)
    \/ \E name \in Segments : NewTransportProxyCaller(name)
    \/ \E self \in 1..Len(heap) :
          \/ \E arg \in {PyNone} \cup Segments : RawSlash(self, arg)
          \/ \E arg \in Segments : RawPath(self, arg)
          \/ \E name \in AttrNames : RawGetAttr(self, name)
          \/ \E name \in Segments : ProxySlash(self, name)
          \/ \E name \in AttrNames : ProxyGetAttr(self, name)

SpecPath == InitPath /\ [][NextPath]_vars

(***************************************************************************)
(* Claims about the lazy entity, checked under Spec.                       *)
(***************************************************************************)
NotFetchedError == Raised("RuntimeError", "Object not fetched")

\* C1: a fetch() on an entity that holds data (from fill or from its
\* constructor) returns at once: the step issues no request, leaves the entity
\* as it was, and the call returns None without having sent anything.
C1_FetchOnResolvedIsNoOp ==
    [][\A t \in Tasks :
          (/\ reqs[t].pc = "idle" /\ reqs'[t] # reqs[t]
           /\ reqs'[t].caller = "fetch" /\ ent.data # PyNone) =>
              /\ netCalls' = netCalls
              /\ ent' = ent
              /\ reqs'[t].pc = "idle"
              /\ reqs'[t].sent = 0
              /\ reqs'[t].ret = Ret(PyNone)]_vars

C1_Witness ==
    /\ ent.data # PyNone /\ ~Falsy(ent.operation)
    /\ reqs["t1"].pc = "idle" /\ reqs["t1"].caller = "fetch"
    /\ reqs["t1"].sent = 0 /\ reqs["t1"].ret = Ret(PyNone)
    /\ reqs["t2"].caller = "fetch" /\ reqs["t2"].sent = 0 /\ reqs["t2"].ret = Ret(PyNone)
    /\ netCalls = 0

\* C2: an attribute access on an entity without data raises "Object not
\* fetched" and returns nothing; the access issues no request, starts no call
\* and leaves the entity (its operation included) as it was.
C2_UnfetchedAccessRaises ==
    [][accessed' # accessed =>
          /\ netCalls' = netCalls
          /\ reqs' = reqs
          /\ ent' = ent
          /\ ent.data = PyNone =>
                (/\ ~accessed'.ret.ok
                 /\ accessed'.ret.value = PyNone
                 /\ accessed'.ret.err = NotFetchedError)]_vars

C2_Witness ==
    /\ accessed.name = "architecture" /\ accessed.ret = Raise(NotFetchedError)
    /\ ent = Entity(JStr("/1.0/instances/a"), PyNone)
    /\ netCalls = 0

\* C3: a step in which a fetch() or update() ends with an exception (no
\* operation, a transport or classifier error, metadata that is no object, a
\* schema mismatch, cancellation) leaves the entity as it was, and so does
\* every step that leaves the call suspended: nothing of a response is
\* applied before the call succeeds.
C3_FailedCallLeavesEntity ==
    [][\A t \in Tasks :
          (/\ reqs'[t] # reqs[t]
           /\ reqs'[t].caller \in {"fetch", "update"}
           /\ \/ reqs'[t].pc # "idle"
              \/ ~reqs'[t].ret.ok) => ent' = ent]_vars

C3_Witness ==
    /\ reqs["t1"].pc = "idle" /\ reqs["t1"].caller = "update" /\ reqs["t1"].sent = 1
    /\ reqs["t1"].ret = Raise(Raised("AioLXDValidationError", "architecture"))
    /\ ent.data = [kind |-> "InstanceSchema", architecture |-> "aarch64"]

C3_WitnessCancelled ==
    /\ reqs["t1"].pc = "idle" /\ reqs["t1"].caller = "fetch" /\ reqs["t1"].json_read
    /\ reqs["t1"].ret = Raise(Raised("CancelledError", ""))
    /\ ent = Entity(JStr("/1.0/instances/a"), PyNone)

(***************************************************************************)
(* Claims about the listing and the transport, checked under SpecTransport.*)
(***************************************************************************)
\* The listing call that has returned from the transport with an array.
Listed(r, recursion) ==
    /\ r.pc = "idle" /\ r.caller = "instances" /\ r.recursion = recursion
    /\ r.result.ok
    /\ r.result.variant.metadata.kind = "array"

\* C4: a listing without recursion whose response carries an array of N
\* reference strings returns N entities without data, the i-th with the i-th
\* string as its operation, after exactly one request.
C4_ListingUnfetched ==
    \A t \in Tasks :
        LET r == reqs[t] IN
        (/\ Listed(r, "false")
         /\ \A i \in 1..Len(r.result.variant.metadata.items) :
               r.result.variant.metadata.items[i].kind = "str") =>
            /\ r.ret.ok
            /\ r.sent = 1
            /\ Len(r.ret.value) = Len(r.result.variant.metadata.items)
            /\ \A i \in 1..Len(r.ret.value) :
                  /\ r.ret.value[i].data = PyNone
                  /\ r.ret.value[i].operation = r.result.variant.metadata.items[i]

C4_Witness ==
    /\ Listed(reqs["t1"], "false")
    /\ reqs["t1"].result.variant.metadata.items =
          <<JStr("/1.0/instances/a"), JStr("/1.0/instances/b")>>
    /\ reqs["t1"].ret =
          Ret(<<Entity(JStr("/1.0/instances/a"), PyNone), Entity(JStr("/1.0/instances/b"), PyNone)>>)

\* The object is one InstanceSchema accepts, and the architecture it holds,
\* as text.
SchemaValid(o) ==
    /\ o.kind = "object" /\ "architecture" \in DOMAIN o.fields
    /\ o.fields["architecture"].kind \in {"str", "int"}
ArchitectureOf(o) ==
    IF o.fields["architecture"].kind = "str" THEN o.fields["architecture"].s
    ELSE ToString(o.fields["architecture"].n)

\* C5: a listing with recursion whose response carries an array of N objects
\* the schema accepts returns N entities with data, the i-th holding the i-th
\* object's architecture, after exactly one request.
C5_ListingFetched ==
    \A t \in Tasks :
        LET r == reqs[t] IN
        (/\ Listed(r, "true")
         /\ \A i \in 1..Len(r.result.variant.metadata.items) :
               SchemaValid(r.result.variant.metadata.items[i])) =>
            /\ r.ret.ok
            /\ r.sent = 1
            /\ Len(r.ret.value) = Len(r.result.variant.metadata.items)
            /\ \A i \in 1..Len(r.ret.value) :
                  /\ r.ret.value[i].data # PyNone
                  /\ r.ret.value[i].data.architecture =
                        ArchitectureOf(r.result.variant.metadata.items[i])

C5_Witness ==
    /\ Listed(reqs["t1"], "true")
    /\ reqs["t1"].result.variant.metadata.items = <<ObjB, ObjA>>
    /\ reqs["t1"].ret.ok /\ reqs["t1"].sent = 1 /\ netCalls = 1
    /\ reqs["t1"].ret.value[1].data.architecture = "aarch64"
    /\ reqs["t1"].ret.value[2].data.architecture = "x86_64"

\* C9: a request whose response has status 500 or more has ended with an
\* AioLXDResponseError that carries the status and the reason, without
\* response.json() having been called and without the classifier having run,
\* and it has returned no variant.
C9_ServerErrorBeforeJson ==
    \A t \in Tasks :
        reqs[t].status >= 500 =>
            /\ reqs[t].pc = "idle"
            /\ ~reqs[t].json_read
            /\ ~reqs[t].classifier_ran
            /\ ~reqs[t].result.ok
            /\ reqs[t].result.variant = NoVariant
            /\ reqs[t].result.err =
                  [exc |-> "AioLXDResponseError", detail |-> "Server error",
                   status |-> reqs[t].status, reason |-> reqs[t].reason]
            /\ ~reqs[t].ret.ok

C9_Witness ==
    /\ reqs["t1"].caller = "request" /\ reqs["t1"].status = 503
    /\ reqs["t1"].result.err =
          [exc |-> "AioLXDResponseError", detail |-> "Server error",
           status |-> 503, reason |-> "Service Unavailable"]
    /\ ~reqs["t1"].json_read

\* C10: the session is closed exactly when close() (or __aexit__) has been
\* called on a transport that was constructed without a session; a session
\* the caller supplied is the one the transport uses and is never closed.
C10_CloseOnlyOwnSession ==
    /\ "caller" \notin closed
    /\ supplied = "none" => (transport.session \in closed <=> close_called)
    /\ supplied # "none" => (transport.session = supplied /\ closed = {})

C10_Witness ==
    /\ supplied = "caller" /\ close_called /\ closed = {}
    /\ netCalls = MaxRequests /\ reqs["t1"].pc = "idle" /\ reqs["t1"].result.ok

(***************************************************************************)
(* Claims about the response classifier, checked under SpecClassify.       *)
(***************************************************************************)
Ran == classified # NotRun

\* The envelope has a known type and every key of that type other than
\* metadata, with an enumerated code.
CompleteButMetadata(e) ==
    /\ Has(e, "type")
    /\ \/ /\ e["type"] \in {"sync", "async"}
          /\ Has(e, "status") /\ Has(e, "status_code")
          /\ e["status_code"] \in (100..113) \cup {200, 400, 401, 404}
          /\ (e["type"] = "async" => Has(e, "operation"))
       \/ /\ e["type"] = "error"
          /\ Has(e, "error") /\ Has(e, "error_code")
          /\ e["error_code"] \in (100..113) \cup {200, 400, 401, 404}

VariantOf(t) ==
    CASE t = "sync" -> "SyncResponse"
      [] t = "async" -> "AsyncResponse"
      [] t = "error" -> "ErrorResponse"
      [] OTHER -> "none"

\* C6 as stated: an envelope that lacks only the metadata key classifies
\* into the variant of its type, with null metadata.
C6_MetadataKeyOptional ==
    (Ran /\ CompleteButMetadata(envelope) /\ ~Has(envelope, "metadata")) =>
        /\ classified.ok
        /\ classified.variant.cls = VariantOf(envelope["type"])
        /\ classified.variant.metadata = PyNone

\* C6, amended: the metadata key is required for every variant.  An envelope
\* with its other keys and an enumerated code classifies into the variant of
\* its type exactly when it has a metadata key, and the variant's metadata is
\* that key's value (null, an array or an object); without the key the
\* classifier raises KeyError('metadata') and yields no variant.
C6_MetadataKeyRequired ==
    (Ran /\ CompleteButMetadata(envelope)) =>
        IF Has(envelope, "metadata")
        THEN /\ classified.ok
             /\ classified.variant.cls = VariantOf(envelope["type"])
             /\ classified.variant.metadata = envelope["metadata"]
        ELSE /\ ~classified.ok
             /\ classified.variant = NoVariant
             /\ classified.err = Raised("KeyError", "metadata")

C6_Witness ==
    /\ Ran /\ CompleteButMetadata(envelope) /\ ~Has(envelope, "metadata")
    /\ envelope["type"] = "error"
    /\ classified.err = Raised("KeyError", "metadata")

\* C7: a sync envelope that has its status, status_code and metadata keys
\* classifies into a SyncResponse whose status code is the member with the
\* envelope's integer when that integer is one of 100..113, 200, 400, 401,
\* 404, and otherwise fails with the enumeration's ValueError and yields no
\* variant.
C7_SyncStatusCode ==
    (/\ Ran
     /\ Has(envelope, "type") /\ envelope["type"] = "sync"
     /\ Has(envelope, "status") /\ Has(envelope, "status_code")
     /\ Has(envelope, "metadata")) =>
        IF envelope["status_code"] \in (100..113) \cup {200, 400, 401, 404}
        THEN /\ classified.ok
             /\ classified.variant.cls = "SyncResponse"
             /\ classified.variant.status_code \in StatusCodeMembers
             /\ classified.variant.status_code.value = envelope["status_code"]
        ELSE /\ ~classified.ok
             /\ classified.variant = NoVariant
             /\ classified.err = Raised("ValueError", "not a valid StatusCode")

C7_Witness ==
    /\ Ran /\ Has(envelope, "type") /\ envelope["type"] = "sync"
    /\ Has(envelope, "status_code") /\ envelope["status_code"] = 401
    /\ classified.ok
    /\ classified.variant.status_code = [name |-> "CANCELED", value |-> 401]

C7_WitnessUnknown ==
    /\ Ran /\ Has(envelope, "type") /\ envelope["type"] = "sync"
    /\ Has(envelope, "status_code") /\ envelope["status_code"] = 114
    /\ classified.err = Raised("ValueError", "not a valid StatusCode")

\* C8 as stated: no type key fails with "Response has no type", any type
\* other than sync, async, error fails with "Invalid response type", whatever
\* the other keys.
C8_UnknownTypeAlwaysUnknownVariant ==
    Ran =>
        /\ ~Has(envelope, "type") =>
              (~classified.ok /\ classified.err = Raised("ValueError", "Response has no type"))
        /\ (Has(envelope, "type") /\ envelope["type"] \notin {"sync", "async", "error"}) =>
              (~classified.ok /\ classified.err = Raised("ValueError", "Invalid response type"))
        /\ classified.ok =>
              (Has(envelope, "type") /\ envelope["type"] \in {"sync", "async", "error"})

\* C8, amended: a variant is yielded only for the types sync, async, error;
\* an envelope with no type key fails with "Response has no type" whatever
\* its other keys; an envelope of any other type fails too, with "Invalid
\* response type" when it has a metadata key and with KeyError('metadata')
\* when it has none.
C8_DiscriminantErrors ==
    Ran =>
        /\ ~Has(envelope, "type") =>
              (~classified.ok /\ classified.err = Raised("ValueError", "Response has no type"))
        /\ (Has(envelope, "type") /\ envelope["type"] \notin {"sync", "async", "error"}) =>
              /\ ~classified.ok
              /\ classified.err =
                    IF Has(envelope, "metadata")
                    THEN Raised("ValueError", "Invalid response type")
                    ELSE Raised("KeyError", "metadata")
        /\ classified.ok =>
              (Has(envelope, "type") /\ envelope["type"] \in {"sync", "async", "error"})

C8_Witness ==
    /\ Ran /\ Has(envelope, "type") /\ envelope["type"] = "bogus"
    /\ ~Has(envelope, "metadata") /\ Has(envelope, "status")
    /\ classified.err = Raised("KeyError", "metadata")

(***************************************************************************)
(* Claims about the path builders, checked under SpecPath.                 *)
(***************************************************************************)
Appends == {k \in 1..Len(calls) : calls[k].recv # 0}

\* C11: every append (slash, path or attribute chaining, on either builder)
\* that returns gives back an object that did not exist before, of the
\* receiver's class, rendering as the receiver rendered when the call was made
\* followed by "/" and the segment; and in every later state the receiver of
\* every call still renders as it did when the call was made, so each derived
\* path keeps the rendering it was given.
C11_AppendNeverMutates ==
    \A k \in Appends :
        /\ heap[calls[k].recv].path = calls[k].before
        /\ calls[k].err = NoError =>
              /\ calls[k].ret # calls[k].recv
              /\ \A j \in 1..(k - 1) : calls[j].ret # calls[k].ret
              /\ heap[calls[k].ret].cls = heap[calls[k].recv].cls
              /\ heap[calls[k].ret].path
                    = calls[k].before \o <<"/">> \o Pieces(calls[k].arg)

\* Two children of one RawLXDCaller, derived by different methods with
\* different segments.
C11_Witness ==
    \E j, k \in Appends :
        /\ j < k
        /\ calls[j].recv = calls[k].recv
        /\ calls[j].op = "__getattr__" /\ calls[k].op = "path"
        /\ calls[j].err = NoError /\ calls[k].err = NoError
        /\ calls[j].arg # calls[k].arg
        /\ heap[calls[j].recv].cls = "RawLXDCaller"

\* A TransportProxyCaller derived from a path that was itself derived.
C11_WitnessChain ==
    \E j, k \in Appends :
        /\ calls[k].recv = calls[j].ret
        /\ calls[k].ret # 0
        /\ heap[calls[k].ret].cls = "TransportProxyCaller"

(***************************************************************************)
(* Claims about concurrent fetches, checked under SpecConcurrentFetch.     *)
(***************************************************************************)
\* The task's fetch() went to the network and returned without raising.
Applied(t) ==
    /\ reqs[t].caller = "lazy_fetch"
    /\ reqs[t].pc = "idle"
    /\ reqs[t].sent = 1
    /\ reqs[t].ret.ok

\* The model a response's metadata stands for, field by field.
WholeRecord(m) ==
    [kind |-> "MyEntity", foo |-> m.fields["foo"].s, bar |-> m.fields["bar"].n]

Complete(m) ==
    /\ m.kind = "object"
    /\ {"foo", "bar"} \subseteq DOMAIN m.fields
    /\ m.fields["foo"].kind = "str"
    /\ m.fields["bar"].kind = "int"

\* C12: with two tasks fetching the same unresolved entity, in every
\* reachable state the entity's operation is the one it was constructed with,
\* and its data is either still absent, and then no fetch has returned
\* normally from the network, or it is, in both fields, the model of the
\* metadata of one single response whose fetch returned normally; a fetch
\* that begins while the entity is unresolved and has an operation issues its
\* own request whatever the other task is doing.
C12_ConcurrentFetchWhole ==
    /\ ent.data = PyNone => \A t \in Tasks : ~Applied(t)
    /\ ent.data # PyNone =>
          \E t \in Tasks :
              /\ Applied(t)
              /\ Complete(reqs[t].result.variant.metadata)
              /\ ent.data = WholeRecord(reqs[t].result.variant.metadata)
    /\ \A t \in Tasks : Applied(t) => Complete(reqs[t].result.variant.metadata)
    /\ netCalls = Cardinality({t \in Tasks : reqs[t].sent = 1})

\* Both fetches went to the network and returned normally with different
\* records; the entity holds the record of t1, whose response came last.
C12_Witness ==
    /\ netCalls = 2
    /\ Applied("t1") /\ Applied("t2")
    /\ reqs["t1"].result.variant.metadata = MyA
    /\ reqs["t2"].result.variant.metadata = MyB
    /\ ent.data = WholeRecord(MyA)

\* One fetch resolved the entity and the other, in flight meanwhile, failed
\* validation: the entity keeps the first record.
C12_WitnessOneFails ==
    /\ netCalls = 2
    /\ Applied("t1")
    /\ reqs["t2"].pc = "idle"
    /\ reqs["t2"].sent = 1
    /\ reqs["t2"].ret.err = Raised("AioLXDValidationError", "MyEntity")
    /\ ent.data = WholeRecord(reqs["t1"].result.variant.metadata)

(***************************************************************************)
(* Claims about the entity's two states, checked under Spec.               *)
(***************************************************************************)
\* The task's fetch() or update() went to the network and returned normally.
Resolving(t) ==
    /\ reqs[t].caller \in {"fetch", "update"}
    /\ reqs[t].pc = "idle"
    /\ reqs[t].sent = 1
    /\ reqs[t].ret.ok

\* C13 as stated: in every reachable state exactly one of the operation
\* reference and the data is set, never both and never neither.
C13_ExactlyOneSet == (ent.operation # PyNone) # (ent.data # PyNone)

\* C13 amended: the operation reference is independent of the data.  An
\* entity that a fetch() or update() resolved through the network holds both
\* its operation and its data; and while the entity has no operation (None or
\* empty), no fetch() or update() on it has issued a request.
C13_OperationKept ==
    /\ \A t \in Tasks :
          Resolving(t) => ent.operation # PyNone /\ ent.data # PyNone
    /\ Falsy(ent.operation) =>
          \A t \in Tasks : reqs[t].caller \in {"fetch", "update"} => reqs[t].sent = 0

\* A fetch() resolved the entity, which still has the operation it fetched.
C13_Witness ==
    /\ reqs["t1"].caller = "fetch" /\ Resolving("t1")
    /\ ent.operation = JStr("/1.0/instances/a")
    /\ ent.data # PyNone

\* An entity with neither operation nor data, whose fetch() has raised.
C13_WitnessNeither ==
    /\ ent = Entity(PyNone, PyNone)
    /\ reqs["t1"].caller = "fetch"
    /\ reqs["t1"].ret.err = Raised("RuntimeError", "Operation not set")

\* C14: no step takes an entity that holds data to an entity without data:
\* not a fetch(), a fill() or a field access, returning or raising, and not
\* an update() either.
C14_ResolvedStaysResolved == [][ent.data # PyNone => ent'.data # PyNone]_vars

\* A resolved entity after a fetch() that returned at once, an update() that
\* failed validation, and a field access that returned.
C14_Witness ==
    /\ ent.data # PyNone
    /\ reqs["t1"].caller = "fetch" /\ reqs["t1"].sent = 0 /\ reqs["t1"].ret.ok
    /\ reqs["t2"].caller = "update" /\ reqs["t2"].pc = "idle"
    /\ reqs["t2"].ret.err = Raised("AioLXDValidationError", "architecture")
    /\ accessed.ret.ok

\* The step in which the transport hands a classified response back to the
\* task's fetch() or update().
Answered(t) ==
    /\ reqs[t].caller \in {"fetch", "update"}
    /\ reqs[t].pc = "reading"
    /\ reqs'[t].pc = "idle"
    /\ reqs'[t].result.ok

\* C15: when the transport returns a response to fetch() or update(), of
\* whichever variant, the call returns None and the entity holds the model of
\* the response's metadata if that metadata is an object the schema accepts;
\* otherwise the call raises a validation or invalid-response error and the
\* entity is left as it was.  The variant decides nothing.
C15_VariantNotInspected ==
    [][\A t \in Tasks :
          Answered(t) =>
             IF SchemaValid(reqs'[t].result.variant.metadata)
             THEN /\ reqs'[t].ret = Ret(PyNone)
                  /\ ent'.operation = ent.operation
                  /\ ent'.data = [kind |-> "InstanceSchema",
                                  architecture |->
                                     ArchitectureOf(reqs'[t].result.variant.metadata)]
             ELSE /\ reqs'[t].ret.err \in
                        {Raised("RuntimeError", "Invalid response"),
                         Raised("AioLXDValidationError", "architecture")}
                  /\ ent' = ent]_vars

\* A fetch() answered by an error envelope with schema-valid metadata
\* returned normally and resolved the entity from that metadata.
C15_Witness ==
    \E t \in Tasks :
        /\ reqs[t].caller = "fetch" /\ Resolving(t)
        /\ reqs[t].result.variant.cls = "ErrorResponse"
        /\ ent.data = [kind |-> "InstanceSchema", architecture |-> "aarch64"]

\* An update() answered by an async envelope resolved the entity likewise.
C15_WitnessAsync ==
    \E t \in Tasks :
        /\ reqs[t].caller = "update" /\ Resolving(t)
        /\ reqs[t].result.variant.cls = "AsyncResponse"
        /\ ent.data = [kind |-> "InstanceSchema", architecture |-> "x86_64"]

====
